---- MODULE Spec2Model ----
(***************************************************************************)
(* Model of lead_app.py: the lead extraction-and-scoring pipeline run by   *)
(* main(), the two SQLite tables behind it (leads, calls) and the scorer.  *)
(*                                                                         *)
(* A Python string is a sequence of one-character strings, so that str(),  *)
(* zfill() and datetime.fromisoformat() are computed on the characters.    *)
(* The display-only fields of a row (name, industry, address, demo_link)   *)
(* take part in no decision of the pipeline and are left out of the rows.  *)
(***************************************************************************)
EXTENDS Integers, Sequences, FiniteSets, TLC

\* ------------------------------------------------------------------ bounds
\* A query result holds at most MaxPerKind nodes and MaxPerKind ways.
MaxPerKind == 1
\* The session runs on a day at most MaxDays days after Today.
MaxDays == 1
\* The scorer is applied to newness_days in -MaxFuture..(ScoreBase + MaxPast).
MaxFuture == 3
MaxPast == 3

\* ------------------------------------------------------- program constants
ScoreBase == 30
PhoneBonus == 10
ContactBonus == 5
HighBonus == 10
MediumBonus == 5
HighIncome == 80000
MediumIncome == 60000
TopN == 50
ZipWidth == 5

OUTCOMES == <<"Uncalled", "Connected", "Voicemail", "No Answer">>

\* ------------------------------------------------------------ Python values
\* None: no Python string, since its one element is not a single character.
None == <<"None">>

Truthy(v) == v # None /\ v # <<>>

\* a or b
Or(a, b) == IF Truthy(a) THEN a ELSE b

\* tags.get(k)
TagsGet(tags, k) == IF k \in DOMAIN tags THEN tags[k] ELSE None

\* tags.get(k, d)
TagsGetDefault(tags, k, d) == IF k \in DOMAIN tags THEN tags[k] ELSE d

Range(s) == {s[i] : i \in DOMAIN s}

DigitChars == <<"0", "1", "2", "3", "4", "5", "6", "7", "8", "9">>

IsDigit(c) == \E i \in DOMAIN DigitChars : DigitChars[i] = c

DigitVal(c) == (CHOOSE i \in DOMAIN DigitChars : DigitChars[i] = c) - 1

\* str(n) of a non-negative int: its decimal digits, no leading zero.
RECURSIVE Str(_)
Str(n) == IF n < 10 THEN <<DigitChars[n + 1]>>
          ELSE Str(n \div 10) \o <<DigitChars[(n % 10) + 1]>>

\* s.zfill(w) of an unsigned string: zeros on the left up to width w.
RECURSIVE ZFill(_, _)
ZFill(s, w) == IF Len(s) >= w THEN s ELSE ZFill(<<"0">> \o s, w)

\* int(s) of a string of digits.
RECURSIVE ParseInt(_)
ParseInt(s) == IF s = <<>> THEN 0
               ELSE 10 * ParseInt(SubSeq(s, 1, Len(s) - 1)) + DigitVal(s[Len(s)])

AllDigits(s) == \A i \in DOMAIN s : IsDigit(s[i])

\* ------------------------------------------------- datetime.fromisoformat
IsLeap(y) == (y % 4 = 0) /\ ((y % 100 # 0) \/ (y % 400 = 0))

DaysInMonth(y, m) == IF m = 2 THEN (IF IsLeap(y) THEN 29 ELSE 28)
                     ELSE IF m \in {4, 6, 9, 11} THEN 30 ELSE 31

DaysBeforeYear(y) == (y - 1) * 365 + ((y - 1) \div 4) - ((y - 1) \div 100) + ((y - 1) \div 400)

RECURSIVE DaysBeforeMonth(_, _)
DaysBeforeMonth(y, m) == IF m = 1 THEN 0
                         ELSE DaysBeforeMonth(y, m - 1) + DaysInMonth(y, m - 1)

\* date(y, m, d).toordinal()
ToOrdinal(y, m, d) == DaysBeforeYear(y) + DaysBeforeMonth(y, m) + d

ValueError == [ok |-> FALSE, ordinal |-> 0, aware |-> FALSE]

\* The calendar date of "YYYY-MM-DD".
ParseDate(s) ==
    IF /\ Len(s) = 10
       /\ s[5] = "-" /\ s[8] = "-"
       /\ AllDigits(SubSeq(s, 1, 4)) /\ AllDigits(SubSeq(s, 6, 7)) /\ AllDigits(SubSeq(s, 9, 10))
    THEN LET y == ParseInt(SubSeq(s, 1, 4))
             m == ParseInt(SubSeq(s, 6, 7))
             d == ParseInt(SubSeq(s, 9, 10))
         IN IF y >= 1 /\ m \in 1..12 /\ d >= 1 /\ d <= DaysInMonth(y, m)
            THEN [ok |-> TRUE, ordinal |-> ToOrdinal(y, m, d), aware |-> FALSE]
            ELSE ValueError
    ELSE ValueError

\* "HH:MM:SS+HH:MM" or "HH:MM:SS-HH:MM": a time of day with a UTC offset.
TimeWithOffsetOk(t) ==
    /\ Len(t) = 14
    /\ t[3] = ":" /\ t[6] = ":" /\ t[9] \in {"+", "-"} /\ t[12] = ":"
    /\ \A i \in {1, 2, 4, 5, 7, 8, 10, 11, 13, 14} : IsDigit(t[i])
    /\ ParseInt(SubSeq(t, 1, 2)) < 24 /\ ParseInt(SubSeq(t, 4, 5)) < 60
    /\ ParseInt(SubSeq(t, 7, 8)) < 60
    /\ ParseInt(SubSeq(t, 10, 11)) < 24 /\ ParseInt(SubSeq(t, 13, 14)) < 60

\* datetime.fromisoformat(s) on the two shapes the tag values drawn below
\* take: a calendar date (a naive datetime at midnight) and a date, one
\* separator character and a time with a UTC offset (an aware datetime).
\* Every other string drawn below is one Python rejects with ValueError.
fromisoformat(s) ==
    IF Len(s) = 10 THEN ParseDate(s)
    ELSE IF Len(s) = 25 /\ TimeWithOffsetOk(SubSeq(s, 12, 25))
         THEN LET d == ParseDate(SubSeq(s, 1, 10))
              IN IF d.ok THEN [d EXCEPT !.aware = TRUE] ELSE ValueError
         ELSE ValueError

\* The tag values drawn below.
Phone == <<"5", "5", "5">>
Email == <<"a", "@", "b">>
Facebook == <<"f", "b">>
\* "2024-02-25", "2024-03-04", "2024-01-01"
DateRecent == <<"2", "0", "2", "4", "-", "0", "2", "-", "2", "5">>
DateFuture == <<"2", "0", "2", "4", "-", "0", "3", "-", "0", "4">>
DateOld == <<"2", "0", "2", "4", "-", "0", "1", "-", "0", "1">>
\* "2024-02-25T00:00:00+00:00"
DateAware == DateRecent \o <<"T", "0", "0", ":", "0", "0", ":", "0", "0", "+", "0", "0", ":", "0", "0">>
NotADate == <<"n", "o", "t", "-", "a", "-", "d", "a", "t", "e">>

\* fromisoformat on the date strings drawn, evaluated once for each.
DateStrings == {DateRecent, DateFuture, DateOld, DateAware, NotADate}
FromIso == [s \in DateStrings |-> fromisoformat(s)]

\* (datetime.utcnow() - datetime.fromisoformat(opening)).days inside the try:
\* ok is FALSE where the code takes the except branch (ValueError from the
\* parse, TypeError from subtracting an aware datetime from the naive now).
\* now is the ordinal of utcnow()'s day: timedelta.days floors, so the time of
\* day of utcnow() does not change the result against a midnight datetime.
Newness(now, opening) ==
    LET p == FromIso[opening]
    IN IF p.ok /\ ~p.aware THEN [ok |-> TRUE, days |-> now - p.ordinal]
       ELSE [ok |-> FALSE, days |-> 0]

\* ---------------------------------------------------------------- scoring
Max(a, b) == IF a >= b THEN a ELSE b

\* Mutant of compute_lead_score: the newness term is not floored at 0.
compute_lead_score_NoFloor(row) ==
    (ScoreBase - row.newness_days)
    + (IF Truthy(row.phone) THEN PhoneBonus ELSE 0)
    + (IF Truthy(row.email_social) THEN ContactBonus ELSE 0)
    + (IF row.income_tier = "High" THEN HighBonus
       ELSE IF row.income_tier = "Medium" THEN MediumBonus ELSE 0)

compute_lead_score(row) ==
    Max(0, ScoreBase - row.newness_days)
    + (IF Truthy(row.phone) THEN PhoneBonus ELSE 0)
    + (IF Truthy(row.email_social) THEN ContactBonus ELSE 0)
    + (IF row.income_tier = "High" THEN HighBonus
       ELSE IF row.income_tier = "Medium" THEN MediumBonus ELSE 0)


\* ------------------------------------------------------------ persistence
\* json.dumps(data): the dict's items in insertion order.
JsonDumps(data) ==
    << <<"osm_id", data.osm_id>>, <<"phone", data.phone>>,
       <<"email/social", data.email_social>>, <<"newness_days", data.newness_days>>,
       <<"income_tier", data.income_tier>>, <<"lead_score", data.lead_score>> >>

\* Mutant of save_lead: INSERT OR REPLACE, the later row takes the place of the stored one.
save_lead_Replace(tbl, osm_id, data) ==
    Append(SelectSeq(tbl, LAMBDA r : r.osm_id # osm_id),
           [osm_id |-> osm_id, data |-> JsonDumps(data)])

\* Mutant of save_lead: the insert is never committed.
save_lead_NoCommit(tbl, osm_id, data) == tbl

\* INSERT OR IGNORE INTO leads: osm_id is the table's PRIMARY KEY.
save_lead(tbl, osm_id, data) ==
    IF \E i \in DOMAIN tbl : tbl[i].osm_id = osm_id THEN tbl
    ELSE Append(tbl, [osm_id |-> osm_id, data |-> JsonDumps(data)])

\* INSERT INTO calls; the timestamp is utcnow()'s day.
mark_call(tbl, osm_id, outcome_, now) ==
    Append(tbl, [osm_id |-> osm_id, outcome |-> outcome_, timestamp |-> now])

\* Mutant of load_called_ids: only the calls that connected count as called.
load_called_ids_Connected(tbl) ==
    {tbl[i].osm_id : i \in {j \in DOMAIN tbl : tbl[j].outcome = "Connected"}}

\* SELECT DISTINCT osm_id FROM calls
load_called_ids(tbl) == {tbl[i].osm_id : i \in DOMAIN tbl}

\* read_csv reads the zip column as integers; astype(str).str.zfill(5).
load_income_data(csv) ==
    [i \in DOMAIN csv |->
        [zip |-> ZFill(Str(csv[i].zip), ZipWidth), median_income |-> csv[i].median_income]]

\* The rows of data/zip_income_sample.csv as read_csv reads them.
CsvA == << [zip |-> 501, median_income |-> 80000], [zip |-> 10001, median_income |-> 60000] >>
CsvB == << [zip |-> 10001, median_income |-> 59999], [zip |-> 10001, median_income |-> 80000],
           [zip |-> 501, median_income |-> 79999] >>
IncomeCsvs == {CsvA, CsvB}

\* load_income_data on each of them, evaluated once.
IncomeDfs == [c \in IncomeCsvs |-> load_income_data(c)]

\* ------------------------------------------------------------ the pipeline
Elements(res) == res.nodes \o res.ways

Min(S) == CHOOSE x \in S : \A y \in S : x <= y

\* income_df[income_df['zip'] == zip_lookup], then iloc[0] and the thresholds.
IncomeTier(income_df, zip_lookup) ==
    LET inc_row == {i \in DOMAIN income_df : income_df[i].zip = zip_lookup}
    IN IF inc_row # {}
       THEN LET inc == income_df[Min(inc_row)].median_income
            IN IF inc >= HighIncome THEN "High"
               ELSE IF inc >= MediumIncome THEN "Medium" ELSE "Low"
       ELSE "Unknown"

\* Mutant of Rejected: the website check is missing.
Rejected_NoWebsite(el, ids, now) ==
    LET tags == el.tags
        phone == Or(TagsGet(tags, "phone"), TagsGet(tags, "contact:phone"))
        opening == Or(TagsGet(tags, "opening_date"), TagsGet(tags, "start_date"))
    IN \/ ~Truthy(phone)
       \/ ~Truthy(opening)
       \/ ~Newness(now, opening).ok
       \/ Str(el.id) \in ids

\* The checks of one loop iteration that end in `continue`.
Rejected(el, ids, now) ==
    LET tags == el.tags
        phone == Or(TagsGet(tags, "phone"), TagsGet(tags, "contact:phone"))
        opening == Or(TagsGet(tags, "opening_date"), TagsGet(tags, "start_date"))
    IN \/ "website" \in DOMAIN tags
       \/ ~Truthy(phone)
       \/ ~Truthy(opening)
       \/ ~Newness(now, opening).ok
       \/ Str(el.id) \in ids

\* The row one loop iteration builds for an element it does not reject.
BuildRow(el, income_df, now) ==
    LET tags == el.tags
        phone == Or(TagsGet(tags, "phone"), TagsGet(tags, "contact:phone"))
        opening == Or(TagsGet(tags, "opening_date"), TagsGet(tags, "start_date"))
        email == Or(TagsGet(tags, "email"), TagsGet(tags, "contact:email"))
        social == Or(TagsGet(tags, "contact:facebook"), TagsGet(tags, "contact:instagram"))
        row == [osm_id |-> Str(el.id),
                phone |-> phone,
                email_social |-> Or(Or(email, social), <<>>),
                newness_days |-> Newness(now, opening).days,
                income_tier |-> IncomeTier(income_df, TagsGetDefault(tags, "addr:postcode", <<>>))]
    IN [osm_id |-> row.osm_id, phone |-> row.phone, email_social |-> row.email_social,
        newness_days |-> row.newness_days, income_tier |-> row.income_tier,
        lead_score |-> compute_lead_score(row)]

\* for el in elements: ... leads.append(row); save_lead(str(el.id), row)
RECURSIVE MainLoop(_, _, _, _, _, _)
MainLoop(els, i, ids, income_df, now, acc) ==
    IF i > Len(els) THEN acc
    ELSE IF Rejected(els[i], ids, now) THEN MainLoop(els, i + 1, ids, income_df, now, acc)
    ELSE LET row == BuildRow(els[i], income_df, now)
         IN MainLoop(els, i + 1, ids, income_df, now,
                     [leads |-> Append(acc.leads, row),
                      tbl |-> save_lead(acc.tbl, Str(els[i].id), row)])

\* df[df['income_tier'] == 'High'] when the checkbox is ticked.
Filtered(rows, chk) ==
    IF chk THEN SelectSeq(rows, LAMBDA r : r.income_tier = "High") ELSE rows

Perms(n) == {p \in [1..n -> 1..n] : \A i, j \in 1..n : p[i] = p[j] => i = j}

\* The orders of up to 2 * MaxPerKind rows, evaluated once.
Orders == [n \in 0..(2 * MaxPerKind) |-> Perms(n)]

\* df.sort_values('lead_score', ascending=False): the default kind is
\* 'quicksort', which is not a stable sort, so rows of equal score may come
\* out in any order.
SortValues(rows) ==
    LET n == Len(rows)
    IN {s \in {[i \in 1..n |-> rows[p[i]]] : p \in Orders[n]} :
           \A i \in 1..n, j \in 1..n : i < j => s[i].lead_score >= s[j].lead_score}

\* .head(50)
HeadRows(rows, n) == SubSeq(rows, 1, IF Len(rows) < n THEN Len(rows) ELSE n)

\* The rows whose selectbox is created: a second selectbox with a key already
\* used in the run raises Streamlit's duplicate-key error, which ends the run.
Rendered(rows) ==
    LET firstDup == {j \in DOMAIN rows : \E i \in 1..(j - 1) : rows[i].osm_id = rows[j].osm_id}
    IN IF firstDup = {} THEN rows ELSE SubSeq(rows, 1, Min(firstDup) - 1)

\* Mutant of LogCalls: every selectbox value is recorded, "Uncalled" too.
RECURSIVE LogCalls_All(_, _, _, _, _)
LogCalls_All(rows, i, tbl, sel, now) ==
    IF i > Len(rows) THEN tbl
    ELSE LogCalls_All(rows, i + 1,
                      mark_call(tbl, rows[i].osm_id, sel[rows[i].osm_id], now), sel, now)

\* for _, row in edited.iterrows(): ... if outcome != "Uncalled": mark_call(...)
\* (edited is df: the operator edits no cell of the table).
RECURSIVE LogCalls(_, _, _, _, _)
LogCalls(rows, i, tbl, sel, now) ==
    IF i > Len(rows) THEN tbl
    ELSE LogCalls(rows, i + 1,
                  IF sel[rows[i].osm_id] # OUTCOMES[1]
                  THEN mark_call(tbl, rows[i].osm_id, sel[rows[i].osm_id], now)
                  ELSE tbl,
                  sel, now)


\* ------------------------------------------------------------------ inputs
Zip10001 == <<"1", "0", "0", "0", "1">>
Zip00501 == <<"0", "0", "5", "0", "1">>
Zip501 == <<"5", "0", "1">>

\* 2024-03-01.
Today == ToOrdinal(2024, 3, 1)

TagsGood == ("phone" :> Phone) @@ ("opening_date" :> DateRecent)
            @@ ("addr:postcode" :> Zip10001) @@ ("email" :> Email)
TagsFuture == ("contact:phone" :> Phone) @@ ("start_date" :> DateFuture)
              @@ ("addr:postcode" :> Zip00501) @@ ("contact:facebook" :> Facebook)
TagsUnpadded == ("phone" :> Phone) @@ ("opening_date" :> DateRecent)
                @@ ("addr:postcode" :> Zip501)
TagsOld == ("phone" :> Phone) @@ ("opening_date" :> <<>>) @@ ("start_date" :> DateOld)
TagsWebsite == ("website" :> <<"w">>) @@ ("phone" :> Phone) @@ ("opening_date" :> DateRecent)
               @@ ("addr:postcode" :> Zip00501)
TagsEmptyPhone == ("phone" :> <<>>) @@ ("opening_date" :> DateRecent)
TagsBadDate == ("phone" :> Phone) @@ ("opening_date" :> NotADate)
TagsAware == ("phone" :> Phone) @@ ("start_date" :> DateAware)
TagsNoDate == ("phone" :> Phone) @@ ("addr:postcode" :> Zip10001)

El(i, t) == [id |-> i, tags |-> t]

\* The nodes and the ways a refreshed query result draws from: an id that is
\* a node and a way with different tags, and a POI with a website.
SmallNodes == {El(1, TagsGood), El(2, TagsFuture)}
SmallWays == {El(1, TagsFuture), El(2, TagsWebsite)}

\* The wider sets the single-query specification draws from: every way of
\* being rejected, and every shape of date and postcode.
RichNodes == {El(1, TagsGood), El(1, TagsUnpadded), El(1, TagsFuture),
              El(2, TagsWebsite), El(2, TagsBadDate), El(2, TagsEmptyPhone)}
RichWays == {El(1, TagsFuture), El(1, TagsOld), El(2, TagsGood),
             El(2, TagsAware), El(2, TagsNoDate)}

\* Lists of at most MaxPerKind elements of one kind: ids are unique within a
\* kind (node ids and way ids are separate id spaces).
ElementLists(pool) ==
    {s \in UNION {[1..k -> pool] : k \in 0..MaxPerKind} :
        \A i, j \in DOMAIN s : s[i].id = s[j].id => i = j}

\* What overpass_query can return.
Results(nodes, ways) ==
    {[nodes |-> ns, ways |-> ws] : ns \in ElementLists(nodes), ws \in ElementLists(ways)}

SmallResults == Results(SmallNodes, SmallWays)
RichResults == Results(RichNodes, RichWays)

ScoreRows ==
    {[newness_days |-> n, phone |-> p, email_social |-> e, income_tier |-> t] :
        n \in (0 - MaxFuture)..(ScoreBase + MaxPast), p \in {<<>>, Phone},
        e \in {<<>>, Email}, t \in {"High", "Medium", "Low", "Unknown"}}

\* ------------------------------------------------------------------- state
VARIABLES
    income_csv,   \* the rows of INCOME_CSV
    leads_tbl,    \* table leads of CACHE_DB, in insertion order
    calls,        \* table calls of CACHE_DB, in insertion order
    clock,        \* the day of datetime.utcnow() in the session
    result,       \* what overpass_query returns (cached by st.cache_data)
    high_only,    \* the "Show only High Income ZIPs" checkbox
    outcome,      \* the value of each Outcome selectbox, by the osm_id of its key
    called_ids,   \* main's local called_ids in the last run
    leads,        \* main's local leads in the last run
    df,           \* main's local df after sort_values().head(50) in the last run
    score_row,    \* the row compute_lead_score was last applied to
    score_out     \* and what it returned

db == <<leads_tbl, calls>>
locals == <<called_ids, leads, df>>
widgets == <<high_only, outcome>>
scorer == <<score_row, score_out>>
vars == <<income_csv, leads_tbl, calls, clock, result, high_only, outcome,
          called_ids, leads, df, score_row, score_out>>

NoResult == [nodes |-> <<>>, ways |-> <<>>]
NoRow == [newness_days |-> 0, phone |-> <<>>, email_social |-> <<>>, income_tier |-> "Unknown"]

\* init_db() on a new CACHE_DB, before the first run of main.
InitDb ==
    /\ leads_tbl = <<>> /\ calls = <<>>
    /\ high_only = FALSE /\ outcome = <<>>
    /\ called_ids = {} /\ leads = <<>> /\ df = <<>>

Init ==
    /\ InitDb
    /\ clock = Today
    /\ income_csv = CsvA
    /\ result = NoResult
    /\ score_row = NoRow /\ score_out = compute_lead_score(NoRow)

\* One run of main: the query result res, the checkbox value chk and the
\* selectbox values sel the widgets return in this run.
Main(res, chk, sel) ==
    LET income_df == IncomeDfs[income_csv]
        ids == load_called_ids(calls)
        out == MainLoop(Elements(res), 1, ids, income_df, clock,
                        [leads |-> <<>>, tbl |-> leads_tbl])
    IN /\ result' = res
       /\ called_ids' = ids
       /\ leads' = out.leads
       /\ leads_tbl' = out.tbl
       /\ IF out.leads = <<>>
          THEN /\ df' = <<>>
               /\ high_only' = FALSE /\ outcome' = <<>>
               /\ calls' = calls
          ELSE \E sorted \in SortValues(Filtered(out.leads, chk)) :
                  LET shown == HeadRows(sorted, TopN)
                      rows == Rendered(shown)
                      keys == {rows[i].osm_id : i \in DOMAIN rows}
                      picked == [k \in keys |-> IF k \in DOMAIN sel THEN sel[k] ELSE OUTCOMES[1]]
                  IN /\ df' = shown
                     /\ high_only' = chk
                     /\ outcome' = picked
                     /\ calls' = LogCalls(rows, 1, calls, picked, clock)
       /\ UNCHANGED <<income_csv, clock, scorer>>

\* The script reruns with the widgets as they are.
Rerun == Main(result, high_only, outcome)

\* The operator ticks or unticks the checkbox; Streamlit reruns the script.
ToggleHighIncome == leads # <<>> /\ Main(result, ~high_only, outcome)

\* The operator picks an outcome in one selectbox; Streamlit reruns the script.
SelectOutcome ==
    \E k \in DOMAIN outcome, o \in Range(OUTCOMES) :
        o # outcome[k] /\ Main(result, high_only, [outcome EXCEPT ![k] = o])

\* "Refresh Leads": st.cache_data.clear(), so overpass_query queries again.
RefreshLeads == \E res \in SmallResults : Main(res, high_only, outcome)

Next == Rerun \/ ToggleHighIncome \/ SelectOutcome \/ RefreshLeads

Spec == Init /\ [][Next]_vars

\* Reruns over one cached query result, drawn from the wider set, on a day
\* and with an income table drawn as well.
InitRun ==
    /\ InitDb
    /\ clock \in Today..(Today + MaxDays)
    /\ income_csv \in IncomeCsvs
    /\ result \in RichResults
    /\ score_row = NoRow /\ score_out = compute_lead_score(NoRow)

NextRun == Rerun \/ ToggleHighIncome \/ SelectOutcome

SpecRun == InitRun /\ [][NextRun]_vars

\* compute_lead_score on its own, applied to rows main never builds as well.
InitScore ==
    /\ InitDb
    /\ clock = Today
    /\ income_csv = CsvA
    /\ result = NoResult
    /\ score_row = NoRow /\ score_out = compute_lead_score(NoRow)

ApplyScore ==
    \E r \in ScoreRows :
        /\ score_row' = r
        /\ score_out' = compute_lead_score(r)
        /\ UNCHANGED <<income_csv, db, clock, result, widgets, locals>>

NextScore == ApplyScore

SpecScore == InitScore /\ [][NextScore]_vars


\* ------------------------------------------------------------------ claims
StoredIds == {leads_tbl[i].osm_id : i \in DOMAIN leads_tbl}

\* The identifiers with an entry in a call history.
CalledIn(history) == {history[i].osm_id : i \in DOMAIN history}

\* The value `a or b` picks among two tags, as the claims word it: the first
\* tag when it is present and not empty, else the second, else none.
Chosen(el, k1, k2) ==
    IF k1 \in DOMAIN el.tags /\ el.tags[k1] # <<>> THEN el.tags[k1]
    ELSE IF k2 \in DOMAIN el.tags THEN el.tags[k2] ELSE None

\* The three conditions of C1 on a raw POI.
Qualifies(el) ==
    /\ "website" \notin DOMAIN el.tags
    /\ Chosen(el, "phone", "contact:phone") \notin {None, <<>>}
    /\ Chosen(el, "opening_date", "start_date") \notin {None, <<>>}
    /\ fromisoformat(Chosen(el, "opening_date", "start_date")).ok

LeadOnlyIfQualified ==
    \A i \in DOMAIN leads :
        /\ \E el \in Range(Elements(result)) :
              Str(el.id) = leads[i].osm_id /\ Qualifies(el)
        /\ leads[i].osm_id \in StoredIds

RunSkipsAndGoesOn ==
    \A el \in Range(Elements(result')) :
        (/\ Qualifies(el)
         /\ ~fromisoformat(Chosen(el, "opening_date", "start_date")).aware
         /\ Str(el.id) \notin CalledIn(calls))
        => \E i \in DOMAIN leads' : leads'[i].osm_id = Str(el.id)

\* C1: a run produces (appends and saves) a lead for a POI only if the POI has
\* no website tag, has a non-empty phone or contact:phone and has an
\* opening_date or start_date whose chosen value parses; a POI failing one of
\* these is skipped and the run goes on to the POIs after it.
C1_LeadOnlyIfQualified == [](LeadOnlyIfQualified) /\ [][RunSkipsAndGoesOn]_vars

\* A run over a POI with a website and a POI that qualifies: one lead.
C1_Witness ==
    /\ \E el \in Range(Elements(result)) : "website" \in DOMAIN el.tags
    /\ \E el \in Range(Elements(result)) : Qualifies(el)
    /\ Len(leads) = 1

LeadStoreUnique ==
    \A i, j \in DOMAIN leads_tbl : leads_tbl[i].osm_id = leads_tbl[j].osm_id => i = j

LeadStoreKept ==
    /\ \A i \in DOMAIN leads_tbl : i \in DOMAIN leads_tbl' /\ leads_tbl'[i] = leads_tbl[i]
    /\ result' = result => leads_tbl' = leads_tbl

\* C2: the lead store holds at most one row per identifier, no run changes
\* or removes a row stored before it, and a run over the same batch as the
\* run before it leaves the lead store unchanged.
C2_InsertIfAbsent == [](LeadStoreUnique) /\ [][LeadStoreKept]_vars

\* A run built a lead whose identifier was stored with other data before.
C2_Witness ==
    \E i \in DOMAIN leads, j \in DOMAIN leads_tbl :
        /\ leads_tbl[j].osm_id = leads[i].osm_id
        /\ leads_tbl[j].data # JsonDumps(leads[i])

CalledStayExcluded ==
    /\ CalledIn(calls) \subseteq CalledIn(calls')
    /\ \A i \in DOMAIN leads' : leads'[i].osm_id \notin CalledIn(calls)
    /\ \A i \in DOMAIN df' : df'[i].osm_id \notin CalledIn(calls)

\* C3: the call history never loses an identifier, and a run shows no lead
\* whose identifier was in the call history when the run began.
C3_CalledNeverShown == [][CalledStayExcluded]_vars

\* The last run met a POI that qualifies and left it out as already called.
C3_Witness ==
    \E el \in Range(Elements(result)) :
        /\ Qualifies(el)
        /\ Str(el.id) \in called_ids
        /\ \A i \in DOMAIN leads : leads[i].osm_id # Str(el.id)
        /\ leads # <<>>

\* C4: the output is ordered by lead_score descending and rows of equal
\* score keep their order in the input.
C4_StableDescending ==
    LET input == Filtered(leads, high_only)
    IN \E p \in Perms(Len(input)) :
          /\ Len(df) = Len(input)
          /\ \A i \in DOMAIN df : df[i] = input[p[i]]
          /\ \A i, j \in DOMAIN df :
                i < j => \/ df[i].lead_score > df[j].lead_score
                         \/ df[i].lead_score = df[j].lead_score /\ p[i] < p[j]

\* C5: no two leads of one run share an osm_id.
C5_OneLeadPerId ==
    \A i, j \in DOMAIN leads : leads[i].osm_id = leads[j].osm_id => i = j

\* C6: the lead_score of every lead a run produces is at most 55.
C6_ScoreAtMost55 == \A i \in DOMAIN leads : leads[i].lead_score <= 55

\* The tier C7 states: the postcode tag and the table's zip both zero-padded.
PaddedTier(el) ==
    LET zip_lookup == ZFill(TagsGetDefault(el.tags, "addr:postcode", <<>>), ZipWidth)
        rows == {i \in DOMAIN income_csv : ZFill(Str(income_csv[i].zip), ZipWidth) = zip_lookup}
    IN IF rows = {} THEN "Unknown"
       ELSE LET inc == income_csv[Min(rows)].median_income
            IN IF inc >= HighIncome THEN "High"
               ELSE IF inc >= MediumIncome THEN "Medium" ELSE "Low"

\* C7: a lead's income_tier is the tier of the table row whose zip equals the
\* POI's postcode tag, both compared as zero-padded 5-character strings, and
\* Unknown when no row matches.
C7_TierByPaddedZip ==
    \A i \in DOMAIN leads :
        \E el \in Range(Elements(result)) :
            /\ Str(el.id) = leads[i].osm_id
            /\ Chosen(el, "phone", "contact:phone") = leads[i].phone
            /\ leads[i].newness_days = Newness(clock, Chosen(el, "opening_date", "start_date")).days
            /\ leads[i].income_tier = PaddedTier(el)

Recorded == {OUTCOMES[i] : i \in 2..Len(OUTCOMES)}

StoredOutcomesRecorded == \A i \in DOMAIN calls : calls[i].outcome \in Recorded

LoggedIffNotUncalled ==
    LET new == SubSeq(calls', Len(calls) + 1, Len(calls'))
    IN /\ Len(calls') >= Len(calls)
       /\ SubSeq(calls', 1, Len(calls)) = calls
       /\ \A j \in DOMAIN new :
             /\ new[j].osm_id \in DOMAIN outcome'
             /\ new[j].outcome = outcome'[new[j].osm_id]
             /\ \E i \in DOMAIN df' : df'[i].osm_id = new[j].osm_id
       /\ \A k \in DOMAIN outcome' :
             outcome'[k] # "Uncalled" <=> \E j \in DOMAIN new : new[j].osm_id = k
       /\ (\A k \in DOMAIN outcome' : outcome'[k] = "Uncalled") => calls' = calls

\* C8: a run appends an entry to the call history for a displayed lead if and
\* only if the outcome picked for it is not "Uncalled", leaves the call
\* history as it was when every pick is "Uncalled", and every stored outcome
\* is Connected, Voicemail or No Answer.
C8_UncalledNotRecorded == [](StoredOutcomesRecorded) /\ [][LoggedIffNotUncalled]_vars

\* A run showed two leads, one left "Uncalled" and one given an outcome: the
\* call history gained the one entry.
C8_Witness ==
    \E k1, k2 \in DOMAIN outcome :
        /\ outcome[k1] = "Uncalled" /\ outcome[k2] # "Uncalled"
        /\ k1 \notin CalledIn(calls)
        /\ calls # <<>> /\ calls[Len(calls)].osm_id = k2
        /\ k2 \notin called_ids

SameButNewness(r1, r2) ==
    /\ r1.phone = r2.phone /\ r1.email_social = r2.email_social
    /\ r1.income_tier = r2.income_tier

ScoreMonotone ==
    (SameButNewness(score_row, score_row') /\ score_row.newness_days <= score_row'.newness_days)
    => score_out' <= score_out

ScoreFloor ==
    (/\ score_row.newness_days >= 30
     /\ score_row.phone = <<>> /\ score_row.email_social = <<>>
     /\ score_row.income_tier \notin {"High", "Medium"})
    => score_out = 0

\* C9: compute_lead_score does not increase when newness_days grows and the
\* other fields stay, and is 0 when newness_days >= 30, phone and
\* email/social are empty and the income tier is neither High nor Medium.
C9_ScoreMonotoneAndFloor == [](ScoreFloor) /\ [][ScoreMonotone]_vars

\* The scorer returned 0 for a listing older than 30 days without a bonus.
C9_Witness ==
    /\ score_row.newness_days > 30
    /\ score_row.phone = <<>> /\ score_row.email_social = <<>>
    /\ score_row.income_tier = "Low"
    /\ score_out = 0

\* C10: every lead a run shows, after the high-income filter, the sort and
\* the truncation, has its identifier in the lead store.
C10_ShownAreStored == \A i \in DOMAIN df : df[i].osm_id \in StoredIds

\* A run with the filter on showed fewer leads than it built and stored.
C10_Witness ==
    /\ high_only /\ df # <<>> /\ Len(df) < Len(leads)
    /\ \A i \in DOMAIN leads : leads[i].osm_id \in StoredIds

====
